---- MODULE Spec2Model ----
(***************************************************************************)
(* A model of the KJV Bible app: the Supabase schema (tables, the          *)
(* full-text trigger, the search_verses function), the useBibleApi hook,   *)
(* and the HomePage handlers (retrieval helpers, favorites, topics).       *)
(*                                                                         *)
(* The specifications share the variables:                                 *)
(*   SpecDb        writes and searches against bible_books_and_verses;     *)
(*   SpecBooks     writes against bible_books;                             *)
(*   SpecApi       the client's retrieval operations over a loaded corpus; *)
(*   SpecHookFair  the hook alone, every store request returning;          *)
(*   SpecPage      the navigation handlers of the page;                    *)
(*   SpecFav       the favorites handlers of the page;                     *)
(*   SpecTopics    the topics handlers of the page;                        *)
(*   SpecSnap      the collection handlers called from one render.         *)
(***************************************************************************)
EXTENDS Integers, Sequences, FiniteSets, TLC

VARIABLES
  verseTable,      \* bible_books_and_verses: a set of rows
  booksTable,      \* bible_books: a set of rows
  nextBookId,      \* the SERIAL sequence behind bible_books.book_id
  nextId,          \* the BIGSERIAL sequence behind bible_books_and_verses.id
  dbResp,          \* the response of the last SQL statement
  verses,          \* useBibleApi: useState<Verse[]>([])
  loading,         \* useBibleApi: useState(false)
  error,           \* useBibleApi: useState<string | null>(null)
  inflight,        \* store requests awaited by the client, by slot
  last,            \* the retrieval call that returned last, and its outcome
  favorites,       \* HomePage: the Set<string> of keys, in insertion order
  favoriteVerses,  \* HomePage: useState<Verse[]>([])
  topics,          \* HomePage: useState<Topic[]>([])
  now,             \* the clock Date.now() reads
  hist,            \* the last collection handler call and the state before it
  selectedBook,    \* HomePage: useState("Genesis")
  selectedChapter, \* HomePage: useState(1)
  searchMode,      \* HomePage: useState(false)
  issued,          \* the request a navigation handler issued last, and its fate
  snap,            \* the favorites and topics of the render the handlers closed over
  batch            \* the handler calls made since that render

vars == <<verseTable, booksTable, nextBookId, nextId, dbResp, verses, loading,
          error, inflight, last, favorites, favoriteVerses, topics, now, hist,
          selectedBook, selectedChapter, searchMode, issued, snap, batch>>

dbVars   == <<verseTable, booksTable, nextBookId, nextId, dbResp>>
apiVars  == <<verses, loading, error, inflight, last>>
collVars == <<favorites, favoriteVerses, topics, now, hist>>
pageVars == <<selectedBook, selectedChapter, searchMode, issued>>
snapVars == <<snap, batch>>

NULL == "null"

(***************************************************************************)
(* Bounds of the model.                                                    *)
(***************************************************************************)
MaxId       == 2    \* INSERT statements issued in a run of SpecDb
MaxResults  == 2    \* the largest max_results passed to search_verses

\* The chapters and verse numbers that statements and requests name.
Chapters     == {1, 2}
VerseNumbers == {1, 2}

(***************************************************************************)
(* Text.  A verse text is a sequence of words; a query is a sequence of    *)
(* tokens, where the token " " is white space.                             *)
(***************************************************************************)
\* The 'english' text search configuration: case folding, stemming, and the
\* stop words, which yield no lexeme ("").
Lexeme(w) ==
  CASE w = "God"   -> "god"
    [] w = "god"   -> "god"
    [] w = "loved" -> "love"
    [] w = "love"  -> "love"
    [] w = "world" -> "world"
    [] w = "faith" -> "faith"
    [] OTHER       -> ""

\* to_tsvector('english', text): the lexemes with their positions; a stop
\* word keeps its position and leaves no entry.
to_tsvector(text) ==
  { <<Lexeme(text[i]), i>> : i \in { j \in DOMAIN text : Lexeme(text[j]) # "" } }

\* websearch_to_tsquery('english', q): the lexemes of the query's words,
\* all of which must be present; stop words and white space are dropped.
websearch_to_tsquery(q) ==
  { Lexeme(q[i]) : i \in { j \in DOMAIN q : Lexeme(q[j]) # "" } }

\* tsv @@ tsq.  A query without lexemes matches nothing.
TsMatch(tsv, tsq) ==
  /\ tsq # {}
  /\ \A l \in tsq : \E e \in tsv : e[1] = l

\* ts_rank(tsv, tsq): grows with the number of occurrences of the query's
\* lexemes; modelled by that number.
ts_rank(tsv, tsq) == Cardinality({ e \in tsv : e[1] \in tsq })

Texts == { <<"God">>, <<"God", "loved", "God">>, <<"the", "world">> }

\* The SQL NULL of a TSVECTOR column: no to_tsvector value has an entry at
\* position 0.
NullTsv == { <<"", 0>> }

\* What a statement may try to write to verse_text_tsv.
TsvInputs == { NullTsv, to_tsvector(<<"God">>) }

(***************************************************************************)
(* Books.  TEXT columns are ordered by the collation, not by seq_number.   *)
(***************************************************************************)
BookNames == {"Genesis", "Exodus"}

Collate(b) ==
  CASE b = "Exodus"      -> 1
    [] b = "Genesis"     -> 2
    [] b = "John"        -> 3
    [] OTHER             -> 4

\* The rows of bible_books after the bulk load (the canonical order).
CanonicalBooks ==
  { [book_id |-> 1, book_name |-> "Genesis", testament |-> "Old Testament",
     seq_number |-> 1, chapter_count |-> 50],
    [book_id |-> 2, book_name |-> "Exodus", testament |-> "Old Testament",
     seq_number |-> 2, chapter_count |-> 40],
    [book_id |-> 3, book_name |-> "John", testament |-> "New Testament",
     seq_number |-> 43, chapter_count |-> 21] }

(***************************************************************************)
(* Sorting a finite set into a sequence by an integer-tuple key.           *)
(***************************************************************************)
RECURSIVE LexLess(_, _)
LexLess(a, b) ==
  IF a = <<>> \/ b = <<>> THEN FALSE
  ELSE \/ Head(a) < Head(b)
       \/ Head(a) = Head(b) /\ LexLess(Tail(a), Tail(b))

RECURSIVE SortByKey(_, _)
SortByKey(S, key) ==
  IF S = {} THEN <<>>
  ELSE LET m == CHOOSE x \in S : \A y \in S \ {x} : ~LexLess(key[y], key[x])
       IN  <<m>> \o SortByKey(S \ {m}, key)

Limit(s, n) == SubSeq(s, 1, IF n < Len(s) THEN n ELSE Len(s))

(***************************************************************************)
(* bible_books_and_verses and its trigger.                                 *)
(***************************************************************************)
NaturalKey(r) == <<r.book_name, r.book_chapter, r.verse_number>>

\* BEFORE INSERT OR UPDATE ... FOR EACH ROW: the function's body.
update_verse_text_tsv(new) ==
  [new EXCEPT !.verse_text_tsv = to_tsvector(new.verse_text)]

tsvector_update_trigger_insert_only(op, new) ==
  IF op = "INSERT" THEN update_verse_text_tsv(new) ELSE new

tsvector_update_trigger(op, new) ==
  IF op \in {"INSERT", "UPDATE"} THEN update_verse_text_tsv(new) ELSE new

\* A table without the unique index.
UniqueViolation_never(table, row) == FALSE

\* UNIQUE(book_name, book_chapter, verse_number), checked against the other rows.
UniqueViolation(table, row) ==
  \E r \in table : r.id # row.id /\ NaturalKey(r) = NaturalKey(row)

\* The outcome of INSERT INTO bible_books_and_verses (...) VALUES (...) on
\* a table: the row passes the trigger, then the unique index.
InsertResult(table, id, b, c, n, text, tsv) ==
  LET new == tsvector_update_trigger("INSERT",
               [id |-> id, book_name |-> b, book_chapter |-> c,
                verse_number |-> n, verse_text |-> text,
                verse_text_tsv |-> tsv])
  IN  IF UniqueViolation(table, new)
      THEN [status |-> "unique_violation", table |-> table]
      ELSE [status |-> "ok", table |-> table \cup {new}]

\* The outcome of UPDATE bible_books_and_verses SET verse_number = n,
\* verse_text = text, verse_text_tsv = tsv WHERE id = old.id
UpdateResult(table, old, n, text, tsv) ==
  LET new == tsvector_update_trigger("UPDATE",
               [old EXCEPT !.verse_number = n, !.verse_text = text,
                           !.verse_text_tsv = tsv])
  IN  IF UniqueViolation(table, new)
      THEN [status |-> "unique_violation", table |-> table]
      ELSE [status |-> "ok", table |-> (table \ {old}) \cup {new}]

\* An INSERT statement.  The sequence advances whether or not the row is kept.
InsertVerse(b, c, n, text, tsv) ==
  /\ nextId <= MaxId
  /\ LET res == InsertResult(verseTable, nextId, b, c, n, text, tsv)
     IN  /\ verseTable' = res.table
         /\ dbResp' = [stmt |-> "INSERT", status |-> res.status,
                       arg |-> <<text, tsv>>, rows |-> <<>>]
  /\ nextId' = nextId + 1
  /\ UNCHANGED <<booksTable, nextBookId, apiVars, collVars,
                 pageVars, snapVars>>

\* An UPDATE statement on one row.
UpdateVerse(old, n, text, tsv) ==
  /\ old \in verseTable
  /\ LET res == UpdateResult(verseTable, old, n, text, tsv)
     IN  /\ verseTable' = res.table
         /\ dbResp' = [stmt |-> "UPDATE", status |-> res.status,
                       arg |-> <<text, tsv>>, rows |-> <<>>]
  /\ UNCHANGED <<booksTable, nextBookId, nextId, apiVars, collVars,
                 pageVars, snapVars>>

(***************************************************************************)
(* search_verses(search_query, max_results).                               *)
(***************************************************************************)
SearchRow(v, tsq) ==
  [book_name |-> v.book_name, book_chapter |-> v.book_chapter,
   verse_number |-> v.verse_number, verse_text |-> v.verse_text,
   rank |-> ts_rank(v.verse_text_tsv, tsq)]

\* ORDER BY rank DESC, v.book_name, v.book_chapter, v.verse_number
SearchOrder(r) ==
  <<0 - r.rank, Collate(r.book_name), r.book_chapter, r.verse_number>>

search_verses(table, search_query, max_results) ==
  LET tsq     == websearch_to_tsquery(search_query)
      matches == { SearchRow(v, tsq) :
                     v \in { w \in table : TsMatch(w.verse_text_tsv, tsq) } }
  IN  Limit(SortByKey(matches, [r \in matches |-> SearchOrder(r)]), max_results)

RpcQueries == { <<"god">>, <<"loved">>, <<"the">> }

\* SELECT * FROM search_verses(q, n)
SearchVersesRpc(q, n) ==
  /\ dbResp' = [stmt |-> "search_verses", status |-> "ok",
                arg |-> <<q, n>>, rows |-> search_verses(verseTable, q, n)]
  /\ UNCHANGED <<verseTable, booksTable, nextBookId, nextId, apiVars, collVars,
                 pageVars, snapVars>>

(***************************************************************************)
(* SpecDb                                                                  *)
(***************************************************************************)
NoResp == [stmt |-> "none", status |-> "ok", arg |-> <<>>, rows |-> <<>>]

\* No retrieval call has just returned.
NoCall == [op |-> "none", book |-> "", chapter |-> 0, query |-> <<>>,
           result |-> "none", value |-> <<>>, clean |-> TRUE]

InitApiIdle ==
  /\ verses = <<>>
  /\ loading = FALSE
  /\ error = NULL
  /\ inflight = <<>>
  /\ last = NoCall

\* No collection handler has been called yet.
NoHandler == [op |-> "none", id |-> 0, verse |-> <<>>, rep |-> FALSE,
              hit |-> FALSE, preTopics |-> <<>>, preFav |-> {}, preFav2 |-> {}]

InitCollIdle ==
  /\ favorites = <<>>
  /\ favoriteVerses = <<>>
  /\ topics = <<>>
  /\ now = 1
  /\ hist = NoHandler
  /\ snap = [favorites |-> <<>>, favoriteVerses |-> <<>>, topics |-> <<>>]
  /\ batch = <<>>

\* No navigation handler has been called yet.
NoRequest == [op |-> "none", book |-> "", chapter |-> 0, query |-> <<>>,
              state |-> "none"]

InitPageIdle ==
  /\ selectedBook = "Genesis"
  /\ selectedChapter = 1
  /\ searchMode = FALSE
  /\ issued = NoRequest

InitDb ==
  /\ verseTable = {}
  /\ booksTable = CanonicalBooks
  /\ nextBookId = Cardinality(CanonicalBooks) + 1
  /\ nextId = 1
  /\ dbResp = NoResp
  /\ InitApiIdle
  /\ InitCollIdle
  /\ InitPageIdle

NextDb ==
  \/ \E b \in BookNames, c \in Chapters, n \in VerseNumbers,
        text \in Texts, tsv \in TsvInputs : InsertVerse(b, c, n, text, tsv)
  \/ \E old \in verseTable, n \in VerseNumbers, text \in Texts,
        tsv \in TsvInputs : UpdateVerse(old, n, text, tsv)
  \/ \E q \in RpcQueries, n \in 0..MaxResults : SearchVersesRpc(q, n)

SpecDb == InitDb /\ [][NextDb]_vars

(***************************************************************************)
(* C2.  Index consistency: in every state reachable by inserts and updates *)
(* (in any interleaving over different verses), every stored row's         *)
(* verse_text_tsv is to_tsvector of that row's current verse_text, also    *)
(* when the statement tried to set verse_text_tsv itself.                  *)
(***************************************************************************)
C2_IndexConsistent ==
  \A r \in verseTable : r.verse_text_tsv = to_tsvector(r.verse_text)

\* An UPDATE that wrote a text together with an index value that is not the
\* index of that text was applied, and the row is stored.
C2_Witness ==
  /\ dbResp.stmt = "UPDATE"
  /\ dbResp.status = "ok"
  /\ dbResp.arg[2] # to_tsvector(dbResp.arg[1])
  /\ \E r \in verseTable : r.verse_text = dbResp.arg[1]
  /\ Cardinality(verseTable) = 2

(***************************************************************************)
(* C3.  search(query, n) returns the first at-most-n matches sorted by     *)
(* descending rank, equal ranks ordered by canonical book order (the       *)
(* book's seq_number), then chapter, then verse number.                    *)
(***************************************************************************)
SeqNumber(b) == (CHOOSE r \in booksTable : r.book_name = b).seq_number

CanonicalOrder(r) ==
  <<0 - r.rank, SeqNumber(r.book_name), r.book_chapter, r.verse_number>>

C3_SearchCanonicalOrder ==
  dbResp.stmt = "search_verses" =>
    LET tsq     == websearch_to_tsquery(dbResp.arg[1])
        matches == { SearchRow(v, tsq) :
                       v \in { w \in verseTable : TsMatch(w.verse_text_tsv, tsq) } }
    IN  dbResp.rows =
          Limit(SortByKey(matches, [r \in matches |-> CanonicalOrder(r)]),
                dbResp.arg[2])

(***************************************************************************)
(* C11.  Natural-key uniqueness: in every state reachable by verse inserts *)
(* and updates no two stored rows share (book_name, book_chapter,          *)
(* verse_number), and a statement that is rejected for the unique index    *)
(* leaves the table as it was.                                             *)
(***************************************************************************)
NaturalKeyUnique ==
  \A r1 \in verseTable : \A r2 \in verseTable :
    NaturalKey(r1) = NaturalKey(r2) => r1 = r2

C11_NaturalKeyUnique ==
  /\ []NaturalKeyUnique
  /\ [][dbResp'.status = "unique_violation" => verseTable' = verseTable]_vars

\* An UPDATE that would have given a row the key of another stored row was
\* rejected.
C11_Witness ==
  /\ dbResp.stmt = "UPDATE"
  /\ dbResp.status = "unique_violation"
  /\ Cardinality(verseTable) = 2
  /\ NaturalKeyUnique

(***************************************************************************)
(* bible_books: INSERT and UPDATE statements against the table's           *)
(* constraints (PRIMARY KEY on the SERIAL book_id, UNIQUE on book_name,    *)
(* CHECK on testament).  seq_number carries an index but no constraint.    *)
(***************************************************************************)
MaxBooks == 2    \* INSERT statements issued in a run of SpecBooks

Testaments == {"Old Testament", "New Testament", "Apocrypha"}

\* The values statements supply.
TestamentInputs == {"Old Testament", "New Testament", "Gospels"}
SeqNumbers      == {1, 2}

\* book_name TEXT NOT NULL UNIQUE
BookNameTaken(table, row) ==
  \E r \in table : r.book_id # row.book_id /\ r.book_name = row.book_name

\* The constraints a written row is checked against, in the order the
\* store reports them.
BookRowStatus(table, row) ==
  IF row.testament \notin Testaments THEN "check_violation"
  ELSE IF BookNameTaken(table, row) THEN "unique_violation"
  ELSE "ok"

\* INSERT INTO bible_books (book_name, testament, seq_number) VALUES (...);
\* chapter_count takes its default.
InsertBook(name, testament, seq) ==
  /\ nextBookId <= MaxBooks
  /\ LET new == [book_id |-> nextBookId, book_name |-> name,
                 testament |-> testament, seq_number |-> seq,
                 chapter_count |-> 0]
         status == BookRowStatus(booksTable, new)
     IN  /\ booksTable' = IF status = "ok" THEN booksTable \cup {new}
                          ELSE booksTable
         /\ dbResp' = [stmt |-> "INSERT", status |-> status,
                       arg |-> <<name, seq>>, rows |-> <<>>]
  /\ nextBookId' = nextBookId + 1
  /\ UNCHANGED <<verseTable, nextId, apiVars, collVars, pageVars, snapVars>>

\* UPDATE bible_books SET book_name = name, testament = testament,
\* seq_number = seq WHERE book_id = old.book_id
UpdateBook(old, name, testament, seq) ==
  /\ old \in booksTable
  /\ LET new == [old EXCEPT !.book_name = name, !.testament = testament,
                            !.seq_number = seq]
         status == BookRowStatus(booksTable, new)
     IN  /\ booksTable' = IF status = "ok"
                          THEN (booksTable \ {old}) \cup {new}
                          ELSE booksTable
         /\ dbResp' = [stmt |-> "UPDATE", status |-> status,
                       arg |-> <<name, seq>>, rows |-> <<>>]
  /\ UNCHANGED <<verseTable, nextBookId, nextId, apiVars, collVars,
                 pageVars, snapVars>>

\* The table as CREATE TABLE leaves it.
InitBooks ==
  /\ verseTable = {}
  /\ booksTable = {}
  /\ nextBookId = 1
  /\ nextId = 1
  /\ dbResp = NoResp
  /\ InitApiIdle
  /\ InitCollIdle
  /\ InitPageIdle

NextBooks ==
  \/ \E name \in BookNames, t \in TestamentInputs, seq \in SeqNumbers :
       InsertBook(name, t, seq)
  \/ \E old \in booksTable, name \in BookNames, t \in TestamentInputs,
        seq \in SeqNumbers : UpdateBook(old, name, t, seq)

SpecBooks == InitBooks /\ [][NextBooks]_vars

(***************************************************************************)
(* C12.  Book ordering: in every state reachable by book inserts and       *)
(* updates, book names are pairwise distinct and no two distinct books     *)
(* have the same sequence number.                                          *)
(***************************************************************************)
BookNamesDistinct ==
  \A r1 \in booksTable : \A r2 \in booksTable :
    r1.book_name = r2.book_name => r1 = r2

SeqNumbersDistinct ==
  \A r1 \in booksTable : \A r2 \in booksTable :
    r1.seq_number = r2.seq_number => r1 = r2

C12_BookOrdering == BookNamesDistinct /\ SeqNumbersDistinct

(***************************************************************************)
(* The store as the client queries it (supabase.from(...).select(...)).    *)
(***************************************************************************)
\* .select("book_name, book_chapter, verse_number, verse_text")
Selected(r) ==
  [book_name |-> r.book_name, book_chapter |-> r.book_chapter,
   verse_number |-> r.verse_number, verse_text |-> r.verse_text]

\* The rows of a set in the order of a key, then projected on the selected
\* columns.
SelectOrdered(rows, key) ==
  LET sorted == SortByKey(rows, key)
  IN  [i \in 1..Len(sorted) |-> Selected(sorted[i])]

\* .eq("book_name", book).eq("book_chapter", chapter), left in the order of
\* the heap (the order of insertion).
SelectChapter_unordered(table, book, chapter) ==
  LET rows == { r \in table : r.book_name = book /\ r.book_chapter = chapter }
  IN  SelectOrdered(rows, [r \in rows |-> <<r.id>>])

\* .eq("book_name", book).eq("book_chapter", chapter).order("verse_number")
SelectChapter(table, book, chapter) ==
  LET rows == { r \in table : r.book_name = book /\ r.book_chapter = chapter }
  IN  SelectOrdered(rows, [r \in rows |-> <<r.verse_number>>])

\* Case folding, as ILIKE compares.
Lower(w) == IF w = "God" THEN "god" ELSE w

\* A verse text as the string it is: its words with single spaces between.
Spaced(text) ==
  [i \in 1..(IF Len(text) = 0 THEN 0 ELSE 2 * Len(text) - 1) |->
     IF i % 2 = 1 THEN text[(i + 1) \div 2] ELSE " "]

\* verse_text ILIKE '%' || query || '%': the query occurs in the text, case
\* folded, at the granularity of tokens.  The empty query occurs everywhere.
ILike(text, query) ==
  LET t == Spaced(text)
  IN  \E k \in 0..Len(t) :
        /\ k + Len(query) <= Len(t)
        /\ \A i \in 1..Len(query) : Lower(t[k + i]) = Lower(query[i])

\* .ilike("verse_text", `%${query}%`).limit(100)
\*   .order("book_name").order("book_chapter").order("verse_number")
SearchLimit == 100

SelectIlikeOrdered(table, query) ==
  LET rows == { r \in table : ILike(r.verse_text, query) }
  IN  Limit(SelectOrdered(rows, [r \in rows |->
              <<Collate(r.book_name), r.book_chapter, r.verse_number>>]),
            SearchLimit)

\* .ilike("verse_text", `%${query}%`).limit(50): no order is asked for, the
\* store returns the rows in the order of the heap.
TopicsSearchLimit == 50

SelectIlike(table, query) ==
  LET rows == { r \in table : ILike(r.verse_text, query) }
  IN  Limit(SelectOrdered(rows, [r \in rows |-> <<r.id>>]), TopicsSearchLimit)

\* (data || []).map((v) => ({ book: v.book_name, chapter: v.book_chapter,
\*                           verse: v.verse_number, text: v.verse_text }))
Transform(data) ==
  [i \in 1..Len(data) |->
     [book |-> data[i].book_name, chapter |-> data[i].book_chapter,
      verse |-> data[i].verse_number, text |-> data[i].verse_text]]

\* query.trim(): leading and trailing white space removed.
RECURSIVE TrimLeft(_)
TrimLeft(q) == IF q # <<>> /\ Head(q) = " " THEN TrimLeft(Tail(q)) ELSE q

RECURSIVE TrimRight(_)
TrimRight(q) ==
  IF q # <<>> /\ q[Len(q)] = " " THEN TrimRight(SubSeq(q, 1, Len(q) - 1)) ELSE q

Trim(q) == TrimRight(TrimLeft(q))

(***************************************************************************)
(* How a store request ends: with data, with an error object in the        *)
(* response ({ data: null, error }), or with an exception (the fetch       *)
(* rejects with an Error).                                                 *)
(***************************************************************************)
StoreOutcomes == {"ok", "error_object", "exception"}

\* err instanceof Error ? err.message : fallback
ErrorMessage(outcome, fallback) ==
  IF outcome = "exception" THEN "TypeError: fetch failed" ELSE fallback

\* The data a request gets from the store when it is answered.
StoreData(call) ==
  CASE call.op = "fetchChapter" ->
         SelectChapter(verseTable, call.book, call.chapter)
    [] call.op = "searchVerses" -> SelectIlikeOrdered(verseTable, call.query)
    [] call.op = "handleTopicsSearch" -> SelectIlike(verseTable, call.query)
    [] call.op = "handleFetchChapter" ->
         SelectChapter(verseTable, call.book, call.chapter)

Call(op, book, chapter, query) ==
  [op |-> op, book |-> book, chapter |-> chapter, query |-> query,
   clean |-> TRUE]

Returned(call, result, value) ==
  [op |-> call.op, book |-> call.book, chapter |-> call.chapter,
   query |-> call.query, result |-> result, value |-> value,
   clean |-> call.clean]

RemoveAt(s, i) == SubSeq(s, 1, i - 1) \o SubSeq(s, i + 1, Len(s))

\* The calls still awaited after call i has returned; a store failure that
\* surfaced while they were awaited is noted on them.
StillAwaited(i, outcome) ==
  LET rest == RemoveAt(inflight, i)
  IN  [k \in 1..Len(rest) |->
         [rest[k] EXCEPT !.clean = rest[k].clean /\ outcome = "ok"]]

MaxInFlight == 2    \* store requests awaited at the same time

(***************************************************************************)
(* useBibleApi.                                                            *)
(***************************************************************************)
\* fetchChapter up to its await: setLoading(true); setError(null); the request.
fetchChapter(book, chapter) ==
  /\ Len(inflight) < MaxInFlight
  /\ loading' = TRUE
  /\ error' = NULL
  /\ inflight' = Append(inflight, Call("fetchChapter", book, chapter, <<>>))
  /\ last' = NoCall
  /\ UNCHANGED <<verses, dbVars, collVars, snapVars>>

\* The verses state after the request of a fetchChapter or searchVerses
\* call has ended: setVerses(transformedVerses) in the try block only.
VersesAfter(outcome, data) ==
  IF outcome = "ok" THEN Transform(data) ELSE verses

\* The error state after the request of a call has ended, where every row
\* set without rows is taken for a failure.
ErrorAfter_emptyIsError(outcome, data, fallback) ==
  IF outcome # "ok" \/ data = <<>> THEN ErrorMessage(outcome, fallback)
  ELSE error

\* The error state after the request of a call has ended: setError(...) in
\* the catch block only.
ErrorAfter(outcome, data, fallback) ==
  IF outcome # "ok" THEN ErrorMessage(outcome, fallback) ELSE error

\* A finally block that runs on the success path only.
LoadingAfter_successOnly(outcome) ==
  IF outcome = "ok" THEN FALSE ELSE loading

\* The loading state after the request of a call has ended:
\* setLoading(false) in the finally block, whatever the outcome.
LoadingAfter(outcome) == FALSE

\* fetchChapter from its await on: try / catch / finally.
fetchChapterReturn(i, outcome) ==
  /\ i \in DOMAIN inflight
  /\ inflight[i].op = "fetchChapter"
  /\ LET data == StoreData(inflight[i])
     IN  /\ verses' = VersesAfter(outcome, data)
         /\ error' = ErrorAfter(outcome, data, "Failed to fetch chapter")
         /\ last' = Returned(inflight[i],
                             IF outcome = "ok" THEN "ok" ELSE "store_error", <<>>)
  /\ loading' = LoadingAfter(outcome)
  /\ inflight' = StillAwaited(i, outcome)
  /\ UNCHANGED <<dbVars, collVars, snapVars>>

\* searchVerses up to its await, or to its early return on a blank query.
searchVerses(query) ==
  IF Trim(query) = <<>>
  THEN /\ verses' = <<>>
       /\ last' = Returned(Call("searchVerses", "", 0, query), "blank", <<>>)
       /\ UNCHANGED <<loading, error, inflight, dbVars, collVars, snapVars>>
  ELSE /\ Len(inflight) < MaxInFlight
       /\ loading' = TRUE
       /\ error' = NULL
       /\ inflight' = Append(inflight, Call("searchVerses", "", 0, query))
       /\ last' = NoCall
       /\ UNCHANGED <<verses, dbVars, collVars, snapVars>>

\* searchVerses from its await on.
searchVersesReturn(i, outcome) ==
  /\ i \in DOMAIN inflight
  /\ inflight[i].op = "searchVerses"
  /\ LET data == StoreData(inflight[i])
     IN  /\ verses' = VersesAfter(outcome, data)
         /\ error' = ErrorAfter(outcome, data, "Failed to search verses")
         /\ last' = Returned(inflight[i],
                             IF outcome = "ok" THEN "ok" ELSE "store_error", <<>>)
  /\ loading' = LoadingAfter(outcome)
  /\ inflight' = StillAwaited(i, outcome)
  /\ UNCHANGED <<dbVars, collVars, snapVars>>

(***************************************************************************)
(* HomePage: the retrieval helpers handed to Topics and VerseDisplay.      *)
(***************************************************************************)
\* What a helper's promise resolves to: the mapped rows, or [] from the
\* catch block.
HelperValue(outcome, data) ==
  IF outcome = "ok" THEN Transform(data) ELSE <<>>

handleTopicsSearch(query) ==
  /\ Len(inflight) < MaxInFlight
  /\ inflight' = Append(inflight, Call("handleTopicsSearch", "", 0, query))
  /\ last' = NoCall
  /\ UNCHANGED <<verses, loading, error, dbVars, collVars, pageVars, snapVars>>

handleFetchChapter(book, chapter) ==
  /\ Len(inflight) < MaxInFlight
  /\ inflight' = Append(inflight, Call("handleFetchChapter", book, chapter, <<>>))
  /\ last' = NoCall
  /\ UNCHANGED <<verses, loading, error, dbVars, collVars, pageVars, snapVars>>

\* A helper from its await on: the hook's state is not touched.
helperReturn(i, outcome) ==
  /\ i \in DOMAIN inflight
  /\ inflight[i].op \in {"handleTopicsSearch", "handleFetchChapter"}
  /\ last' = Returned(inflight[i],
                      IF outcome = "ok" THEN "ok" ELSE "store_error",
                      HelperValue(outcome, StoreData(inflight[i])))
  /\ inflight' = StillAwaited(i, outcome)
  /\ UNCHANGED <<verses, loading, error, dbVars, collVars, pageVars, snapVars>>

(***************************************************************************)
(* SpecApi: the retrieval operations over a corpus left by a bulk load.    *)
(***************************************************************************)
\* The INSERT statements of a bulk load, in the order they are issued.  The
\* third names a verse that is stored already.
CanonLoad ==
  << [b |-> "Genesis", c |-> 1, n |-> 2, text |-> <<"the", "world">>],
     [b |-> "Genesis", c |-> 1, n |-> 1, text |-> <<"God">>],
     [b |-> "Genesis", c |-> 1, n |-> 2, text |-> <<"God">>],
     [b |-> "Exodus",  c |-> 1, n |-> 1, text |-> <<"God", "loved", "God">>],
     [b |-> "Genesis", c |-> 2, n |-> 1, text |-> <<"God", "loved", "God">>] >>

RECURSIVE BulkLoad(_)
BulkLoad(k) ==
  IF k = 0 THEN {}
  ELSE InsertResult(BulkLoad(k - 1), k, CanonLoad[k].b, CanonLoad[k].c,
                    CanonLoad[k].n, CanonLoad[k].text, NullTsv).table

ReqBooks    == {"Genesis", "Nonexistent"}
ReqChapters == {0, 1}
ApiQueries  == { <<>>, <<" ">>, <<"god">>, <<"faith">> }

InitApi ==
  /\ \E k \in 0..Len(CanonLoad) :
       /\ verseTable = BulkLoad(k)
       /\ nextId = k + 1
  /\ booksTable = CanonicalBooks
  /\ nextBookId = Cardinality(CanonicalBooks) + 1
  /\ dbResp = NoResp
  /\ InitApiIdle
  /\ InitCollIdle
  /\ InitPageIdle

NextApi ==
  \/ \E b \in ReqBooks, c \in ReqChapters :
       fetchChapter(b, c) /\ UNCHANGED pageVars
  \/ \E q \in ApiQueries :
       searchVerses(q) /\ UNCHANGED pageVars
  \/ \E q \in ApiQueries : handleTopicsSearch(q)
  \/ \E b \in ReqBooks, c \in ReqChapters : handleFetchChapter(b, c)
  \/ \E i \in DOMAIN inflight, o \in StoreOutcomes :
       fetchChapterReturn(i, o) /\ UNCHANGED pageVars
  \/ \E i \in DOMAIN inflight, o \in StoreOutcomes :
       searchVersesReturn(i, o) /\ UNCHANGED pageVars
  \/ \E i \in DOMAIN inflight, o \in StoreOutcomes : helperReturn(i, o)

SpecApi == InitApi /\ [][NextApi]_vars

(***************************************************************************)
(* C1.  A store failure is never conflated with an empty result: whenever  *)
(* a retrieval operation (fetchChapter, searchVerses, handleTopicsSearch,  *)
(* handleFetchChapter) returns after its store request failed, what the    *)
(* caller observes differs from what it observes after a successful call   *)
(* that matched no row.                                                    *)
(***************************************************************************)
HookOps   == {"fetchChapter", "searchVerses"}
HelperOps == {"handleTopicsSearch", "handleFetchChapter"}

\* What the caller of the call that has just returned can observe: the
\* hook's verses and error, or the value the helper's promise resolved to.
Observed ==
  IF last.op \in HookOps THEN <<verses, error>> ELSE <<last.value, NULL>>

\* What is observed after a successful call that matched no row.
EmptySuccess == << <<>>, NULL >>

C1_StoreFailureDistinct ==
  last.result = "store_error" => Observed # EmptySuccess

(***************************************************************************)
(* C4.  Malformed input is rejected before any store call: a search with   *)
(* an empty or white-space query and a fetchChapter with a chapter number  *)
(* that is not positive never issue a store request, and end in a          *)
(* validation error, not in a success with an empty result.                *)
(***************************************************************************)
Malformed(call) ==
  \/ call.op \in {"searchVerses", "handleTopicsSearch"} /\ Trim(call.query) = <<>>
  \/ call.op = "fetchChapter" /\ call.chapter <= 0

C4_MalformedRejected ==
  /\ \A i \in DOMAIN inflight : ~Malformed(inflight[i])
  /\ (last.op # "none" /\ Malformed(last)) => last.result = "validation_error"

(***************************************************************************)
(* C5.  A successful fetchChapter(book, chapter) yields exactly the stored *)
(* verses of that book and chapter, each once, in strictly ascending order *)
(* of verse number; so does the page's handleFetchChapter.                 *)
(***************************************************************************)
StoredChapter(book, chapter) ==
  { r \in verseTable : r.book_name = book /\ r.book_chapter = chapter }

\* The verses the fetch that has just returned has yielded.
Yielded == IF last.op = "fetchChapter" THEN verses ELSE last.value

C5_FetchChapterExact ==
  (last.op \in {"fetchChapter", "handleFetchChapter"} /\ last.result = "ok") =>
    LET stored == StoredChapter(last.book, last.chapter)
    IN  /\ Len(Yielded) = Cardinality(stored)
        /\ \A r \in stored : \E i \in DOMAIN Yielded :
             Yielded[i] = [book |-> r.book_name, chapter |-> r.book_chapter,
                           verse |-> r.verse_number, text |-> r.verse_text]
        /\ \A i \in DOMAIN Yielded : \A j \in DOMAIN Yielded :
             i < j => Yielded[i].verse < Yielded[j].verse

\* A fetch has yielded two verses of a chapter that were inserted in the
\* other order, from a table that holds other chapters and books too.
C5_Witness ==
  /\ last.op = "fetchChapter"
  /\ last.result = "ok"
  /\ Len(verses) = 2
  /\ \E r1 \in verseTable : \E r2 \in verseTable :
       /\ NaturalKey(r1) = <<verses[1].book, verses[1].chapter, verses[1].verse>>
       /\ NaturalKey(r2) = <<verses[2].book, verses[2].chapter, verses[2].verse>>
       /\ r1.id > r2.id
  /\ Cardinality(verseTable) > 2

(***************************************************************************)
(* C6.  fetchChapter on a (book, chapter) pair without stored verses, with *)
(* the store reachable (no store failure surfaced while the call was       *)
(* awaited), completes with verses = [] and error = null.                  *)
(***************************************************************************)
C6_EmptyChapterNoError ==
  ( /\ last.op = "fetchChapter"
    /\ last.result = "ok"
    /\ last.clean
    /\ StoredChapter(last.book, last.chapter) = {} ) =>
      (verses = <<>> /\ error = NULL)

\* Such a fetch has returned, on a table that is not empty, while another
\* request is still awaited.
C6_Witness ==
  /\ last.op = "fetchChapter"
  /\ last.result = "ok"
  /\ last.clean
  /\ last.book = "Nonexistent"
  /\ StoredChapter(last.book, last.chapter) = {}
  /\ verseTable # {}
  /\ Len(inflight) = 1
  /\ verses = <<>>
  /\ error = NULL

(***************************************************************************)
(* C15.  The loading flag covers every in-flight request: whenever a       *)
(* fetchChapter or searchVerses store request has been issued and has not  *)
(* returned, loading is true, also when requests overlap and one of them   *)
(* returns before the others.                                              *)
(***************************************************************************)
HookInFlight == \E i \in DOMAIN inflight : inflight[i].op \in HookOps

C15_LoadingCoversInFlight == HookInFlight => loading = TRUE

(***************************************************************************)
(* The hook alone, every store request returning in the end.               *)
(***************************************************************************)
fetchChapterReturns ==
  \E i \in DOMAIN inflight, o \in StoreOutcomes :
    fetchChapterReturn(i, o) /\ UNCHANGED pageVars

searchVersesReturns ==
  \E i \in DOMAIN inflight, o \in StoreOutcomes :
    searchVersesReturn(i, o) /\ UNCHANGED pageVars

NextHook ==
  \/ \E b \in ReqBooks, c \in ReqChapters :
       fetchChapter(b, c) /\ UNCHANGED pageVars
  \/ \E q \in ApiQueries :
       searchVerses(q) /\ UNCHANGED pageVars
  \/ fetchChapterReturns
  \/ searchVersesReturns

\* The hook over a store that holds at most the first verse of the load:
\* what the store holds has no part in the loading flag.
InitHook == InitApi /\ Cardinality(verseTable) <= 1

\* A request that is awaited returns: the store answers every request.
SpecHookFair ==
  /\ InitHook
  /\ [][NextHook]_vars
  /\ WF_vars(fetchChapterReturns)
  /\ WF_vars(searchVersesReturns)

(***************************************************************************)
(* C16.  Loading always ends: when every store request returns, loading    *)
(* set to true by a fetchChapter or searchVerses call is followed by       *)
(* loading being false, after a success and after a failure alike, and     *)
(* loading is false whenever no request of the hook is in flight.          *)
(***************************************************************************)
C16_LoadingEnds ==
  /\ [](~HookInFlight => loading = FALSE)
  /\ (loading = TRUE) ~> (loading = FALSE)

\* A call whose store request failed has returned, nothing else is awaited
\* and loading is off.
C16_Witness ==
  /\ last.op \in HookOps
  /\ last.result = "store_error"
  /\ inflight = <<>>
  /\ loading = FALSE
  /\ error # NULL

(***************************************************************************)
(* C17.  The error state reflects the latest call: when a fetchChapter or  *)
(* searchVerses call has returned and no request is in flight, error is    *)
(* non-null if and only if the store request of that call failed; a call   *)
(* that did not fail (a searchVerses call with a blank query included)     *)
(* leaves no error of an earlier call behind.                              *)
(***************************************************************************)
C17_ErrorReflectsLatest ==
  (last.op \in HookOps /\ inflight = <<>>) =>
    ((error # NULL) <=> (last.result = "store_error"))

(***************************************************************************)
(* HomePage: navigation.  Each handler sets the page state and calls the   *)
(* hook; the hook's part of the call after its await runs when the store   *)
(* answers, in any order.                                                  *)
(***************************************************************************)
\* The request a handler has just issued.
Request(op, book, chapter, query) ==
  [op |-> op, book |-> book, chapter |-> chapter, query |-> query,
   state |-> "pending"]

handleBookChange(book) ==
  /\ selectedBook' = book
  /\ selectedChapter' = 1
  /\ searchMode' = FALSE
  /\ fetchChapter(book, 1)
  /\ issued' = Request("fetchChapter", book, 1, <<>>)

handleChapterChange(chapter) ==
  /\ selectedChapter' = chapter
  /\ searchMode' = FALSE
  /\ fetchChapter(selectedBook, chapter)
  /\ issued' = Request("fetchChapter", selectedBook, chapter, <<>>)
  /\ UNCHANGED selectedBook

handleSearch(query) ==
  IF Trim(query) # <<>>
  THEN /\ searchMode' = TRUE
       /\ searchVerses(query)
       /\ issued' = Request("searchVerses", "", 0, query)
       /\ UNCHANGED <<selectedBook, selectedChapter>>
  ELSE /\ searchMode' = FALSE
       /\ fetchChapter(selectedBook, selectedChapter)
       /\ issued' = Request("fetchChapter", selectedBook, selectedChapter, <<>>)
       /\ UNCHANGED <<selectedBook, selectedChapter>>

\* chapter is optional: 0 stands for a call without it, and is as falsy.
handleBooksExplorerSelection(book, chapter) ==
  /\ selectedBook' = book
  /\ IF chapter # 0
     THEN /\ selectedChapter' = chapter
          /\ fetchChapter(book, chapter)
          /\ issued' = Request("fetchChapter", book, chapter, <<>>)
     ELSE /\ selectedChapter' = 1
          /\ fetchChapter(book, 1)
          /\ issued' = Request("fetchChapter", book, 1, <<>>)
  /\ searchMode' = FALSE

\* The fate of the request issued last, once call i has returned: the
\* request issued last is the last of those awaited.
IssuedAfter(i, outcome) ==
  IF issued.state = "pending" /\ i = Len(inflight)
  THEN [issued EXCEPT !.state = IF outcome = "ok" THEN "ok" ELSE "store_error"]
  ELSE issued

\* The store answers a request of the page.
pageFetchChapterReturn(i, outcome) ==
  /\ fetchChapterReturn(i, outcome)
  /\ issued' = IssuedAfter(i, outcome)
  /\ UNCHANGED <<selectedBook, selectedChapter, searchMode>>

pageSearchVersesReturn(i, outcome) ==
  /\ searchVersesReturn(i, outcome)
  /\ issued' = IssuedAfter(i, outcome)
  /\ UNCHANGED <<selectedBook, selectedChapter, searchMode>>

PageBooks    == {"Genesis", "Exodus"}
PageQueries  == {<<" ">>, <<"god">>, <<"loved">>}

\* The page once mounted over the loaded store: the mount effect has called
\* fetchChapter(selectedBook, selectedChapter).
InitPage ==
  /\ verseTable = BulkLoad(Len(CanonLoad))
  /\ nextId = Len(CanonLoad) + 1
  /\ booksTable = CanonicalBooks
  /\ nextBookId = Cardinality(CanonicalBooks) + 1
  /\ dbResp = NoResp
  /\ verses = <<>>
  /\ loading = TRUE
  /\ error = NULL
  /\ inflight = << Call("fetchChapter", "Genesis", 1, <<>>) >>
  /\ last = NoCall
  /\ InitCollIdle
  /\ selectedBook = "Genesis"
  /\ selectedChapter = 1
  /\ searchMode = FALSE
  /\ issued = Request("fetchChapter", "Genesis", 1, <<>>)

NextPage ==
  \/ \E b \in PageBooks : handleBookChange(b)
  \/ \E c \in Chapters : handleChapterChange(c)
  \/ \E q \in PageQueries : handleSearch(q)
  \/ \E b \in PageBooks, c \in {0} \cup Chapters :
       handleBooksExplorerSelection(b, c)
  \/ \E i \in DOMAIN inflight, o \in StoreOutcomes :
       pageFetchChapterReturn(i, o)
  \/ \E i \in DOMAIN inflight, o \in StoreOutcomes :
       pageSearchVersesReturn(i, o)

SpecPage == InitPage /\ [][NextPage]_vars

(***************************************************************************)
(* C14.  Latest request wins: once no request is in flight and the request *)
(* issued last has succeeded, the displayed verses are the result of that  *)
(* request: the chapter (selectedBook, selectedChapter) when searchMode is *)
(* false, the matches of the last query when searchMode is true.           *)
(***************************************************************************)
LatestResult ==
  IF searchMode
  THEN Transform(SelectIlikeOrdered(verseTable, issued.query))
  ELSE Transform(SelectChapter(verseTable, selectedBook, selectedChapter))

C14_LatestRequestWins ==
  (inflight = <<>> /\ issued.state = "ok") => verses = LatestResult

(***************************************************************************)
(* HomePage: favorites.                                                    *)
(***************************************************************************)
\* The Verse objects the components hand to the handlers.  The first two
\* are the same verse with two texts (the text of a verse may be rewritten
\* in the store between two loads).
VerseObjs ==
  { [book |-> "Genesis", chapter |-> 1, verse |-> 1, text |-> <<"God">>],
    [book |-> "Genesis", chapter |-> 1, verse |-> 1, text |-> <<"the", "world">>],
    [book |-> "John", chapter |-> 3, verse |-> 16, text |-> <<"God", "loved", "God">>] }

\* `${verse.book}_${verse.chapter}_${verse.verse}`: the text is not part of
\* the key, and the numbers end it, so that the three parts determine it.
Key(v) == <<v.book, v.chapter, v.verse>>

Range(s) == { s[i] : i \in DOMAIN s }

\* array.find(...) ?? null, and array.findIndex(...), for a key.
FindIndex(vs, key) ==
  IF \E i \in DOMAIN vs : Key(vs[i]) = key
  THEN CHOOSE i \in DOMAIN vs :
         Key(vs[i]) = key /\ \A j \in 1..(i - 1) : Key(vs[j]) # key
  ELSE 0

\* A lookup that reads the displayed verses only.
findVerseByKey_displayedOnly(key, vs, favVs) ==
  IF FindIndex(vs, key) > 0 THEN << vs[FindIndex(vs, key)] >> ELSE <<>>

\* findVerseByKey: the displayed verses first, then the favorite verses; <<>>
\* stands for null, <<v>> for the verse found.
findVerseByKey(key, vs, favVs) ==
  IF FindIndex(vs, key) > 0 THEN << vs[FindIndex(vs, key)] >>
  ELSE IF FindIndex(favVs, key) > 0 THEN << favVs[FindIndex(favVs, key)] >>
  ELSE <<>>

\* useEffect(..., [favorites]): the favorite verses rebuilt from the set, in
\* the insertion order of its keys.
RECURSIVE FavoritesEffect(_, _, _)
FavoritesEffect(favs, vs, favVs) ==
  IF favs = <<>> THEN <<>>
  ELSE findVerseByKey(Head(favs), vs, favVs)
         \o FavoritesEffect(Tail(favs), vs, favVs)

\* The set after a toggle that never deletes.
NewFavorites_addOnly(favs, key) ==
  IF key \in Range(favs) THEN favs ELSE Append(favs, key)

\* newFavorites after handleToggleFavorite: delete(key) or add(key).
NewFavorites(favs, key) ==
  IF key \in Range(favs) THEN SelectSeq(favs, LAMBDA k : k # key)
  ELSE Append(favs, key)

\* newFavoriteVerses after handleToggleFavorite: splice(index, 1) or push.
NewFavoriteVerses(favs, favVs, verse) ==
  IF Key(verse) \in Range(favs)
  THEN IF FindIndex(favVs, Key(verse)) > 0
       THEN RemoveAt(favVs, FindIndex(favVs, Key(verse)))
       ELSE favVs
  ELSE Append(favVs, verse)

\* handleToggleFavorite, with the effect that the new favorites set triggers.
handleToggleFavorite(verse) ==
  LET newFavorites == NewFavorites(favorites, Key(verse))
      newFavoriteVerses == NewFavoriteVerses(favorites, favoriteVerses, verse)
  IN  /\ favorites' = newFavorites
      /\ favoriteVerses' = FavoritesEffect(newFavorites, verses, newFavoriteVerses)
      /\ hist' = [op |-> "toggle", id |-> 0, verse |-> verse,
                  rep |-> (hist.op = "toggle" /\ hist.verse = verse),
                  hit |-> (Key(verse) \in Range(favorites)),
                  preTopics |-> <<>>,
                  preFav |-> Range(favorites), preFav2 |-> hist.preFav]
      /\ UNCHANGED <<topics, now, dbVars, apiVars, pageVars, snapVars>>

\* handleRemoveFavorite, called by Favorites on one of the favorite verses.
handleRemoveFavorite(verse) ==
  /\ verse \in Range(favoriteVerses)
  /\ handleToggleFavorite(verse)

\* What VerseDisplay shows while the favorites are edited.
Displayed ==
  { <<>>,
    << [book |-> "Genesis", chapter |-> 1, verse |-> 1, text |-> <<"the", "world">>] >>,
    << [book |-> "Genesis", chapter |-> 1, verse |-> 1, text |-> <<"God">>],
       [book |-> "John", chapter |-> 3, verse |-> 16, text |-> <<"God", "loved", "God">>] >>,
    << [book |-> "John", chapter |-> 3, verse |-> 16, text |-> <<"God", "loved", "God">>] >> }

InitFav ==
  /\ verseTable = {}
  /\ booksTable = CanonicalBooks
  /\ nextBookId = Cardinality(CanonicalBooks) + 1
  /\ nextId = 1
  /\ dbResp = NoResp
  /\ verses \in Displayed
  /\ loading = FALSE
  /\ error = NULL
  /\ inflight = <<>>
  /\ last = NoCall
  /\ InitCollIdle
  /\ InitPageIdle

\* setVerses(...) of a chapter load or a search that returned while the
\* favorites are edited.  favorites is not touched, so the effect on
\* [favorites] does not run again.
setVerses(vs) ==
  /\ verses' = vs
  /\ hist' = [hist EXCEPT !.op = "load", !.rep = FALSE]
  /\ UNCHANGED <<loading, error, inflight, last, favorites, favoriteVerses,
                 topics, now, dbVars, pageVars, snapVars>>

NextFav ==
  \/ \E v \in VerseObjs : handleToggleFavorite(v)
  \/ \E v \in VerseObjs : handleRemoveFavorite(v)
  \/ \E vs \in Displayed : setVerses(vs)

SpecFav == InitFav /\ [][NextFav]_vars

(***************************************************************************)
(* C7.  Double toggle restores membership: after handleToggleFavorite(v)   *)
(* has been called twice in succession, the set of favorite keys is what   *)
(* it was before the first of the two calls.                               *)
(***************************************************************************)
C7_DoubleToggleRestores ==
  (hist.op = "toggle" /\ hist.rep) => Range(favorites) = hist.preFav2

\* Two toggles of a favorite verse have run (off, then on again) in a state
\* that holds another favorite.
C7_Witness ==
  /\ hist.op = "toggle"
  /\ hist.rep
  /\ ~hist.hit
  /\ Key(hist.verse) \in Range(favorites)
  /\ Cardinality(Range(favorites)) = 2

(***************************************************************************)
(* C13.  Favorites in step with their verse list: in every state reached   *)
(* by toggles and removals interleaved with chapter loads and searches,    *)
(* the favorites set holds no key twice, favoriteVerses holds exactly one  *)
(* verse for each key of the set, and no verse whose key is not in it.     *)
(***************************************************************************)
C13_FavoritesInStep ==
  /\ \A i \in DOMAIN favorites : \A j \in DOMAIN favorites :
       favorites[i] = favorites[j] => i = j
  /\ \A k \in Range(favorites) :
       Cardinality({ i \in DOMAIN favoriteVerses :
                       Key(favoriteVerses[i]) = k }) = 1
  /\ \A i \in DOMAIN favoriteVerses :
       Key(favoriteVerses[i]) \in Range(favorites)

\* A toggle has removed one of two favorites while the displayed verses hold
\* neither of them: the effect finds the other one in favoriteVerses only.
C13_Witness ==
  /\ hist.op = "toggle"
  /\ Len(favorites) = 1
  /\ Cardinality(hist.preFav) = 2
  /\ verses = <<>>

(***************************************************************************)
(* HomePage: topics.                                                       *)
(***************************************************************************)
MaxTopics == 2    \* topics in the list, and the values the clock takes

KeyEq(v, verse) ==
  v.book = verse.book /\ v.chapter = verse.chapter /\ v.verse = verse.verse

NoDuplicateKeys(vs) ==
  \A i \in DOMAIN vs : \A j \in DOMAIN vs : i # j => ~KeyEq(vs[i], vs[j])

\* What Topics passes to onCreateTopic: a title, a description and the
\* verses chosen for the new topic, none of them twice.
NewTopicData ==
  { [title |-> "Faith", description |-> "", verses |-> vs] :
      vs \in { <<>> } \cup { <<v>> : v \in VerseObjs } }

\* Date.now().toString(): the decimal digits of the clock, one id per value.
ToId(ms) == <<"id", ms>>

\* handleCreateTopic: { ...topicData, id, createdAt } appended.
CreatedTopics(ts, topicData, ms) ==
  Append(ts, [id |-> ToId(ms), title |-> topicData.title,
              description |-> topicData.description,
              verses |-> topicData.verses, createdAt |-> ms])

\* handleDeleteTopic: topics.filter((topic) => topic.id !== topicId)
RemainingTopics(ts, topicId) == SelectSeq(ts, LAMBDA t : t.id # topicId)

\* The topic after an add that does not look for the verse first.
WithVerse_noCheck(topic, verse) ==
  [topic EXCEPT !.verses = Append(@, verse)]

\* The topic after an add that takes a verse for present only when its text
\* is the same too.
WithVerse_textCompared(topic, verse) ==
  IF \E i \in DOMAIN topic.verses : topic.verses[i] = verse THEN topic
  ELSE [topic EXCEPT !.verses = Append(@, verse)]

\* The topic after handleAddVerseToTopic: unchanged if verseExists.
WithVerse(topic, verse) ==
  IF \E i \in DOMAIN topic.verses : KeyEq(topic.verses[i], verse) THEN topic
  ELSE [topic EXCEPT !.verses = Append(@, verse)]

\* The topic after handleRemoveVerseFromTopic: verses.filter(...)
WithoutVerse(topic, verse) ==
  [topic EXCEPT !.verses = SelectSeq(@, LAMBDA v : ~KeyEq(v, verse))]

\* topics.map((topic) => topic.id === topicId ? f(topic) : topic)
AddedTopics(ts, topicId, verse) ==
  [i \in DOMAIN ts |->
     IF ts[i].id = topicId THEN WithVerse(ts[i], verse) ELSE ts[i]]

RemovedTopics(ts, topicId, verse) ==
  [i \in DOMAIN ts |->
     IF ts[i].id = topicId THEN WithoutVerse(ts[i], verse) ELSE ts[i]]

TopicHasKey(ts, topicId, verse) ==
  \E i \in DOMAIN ts :
    /\ ts[i].id = topicId
    /\ \E k \in DOMAIN ts[i].verses : KeyEq(ts[i].verses[k], verse)

Handled(op, topicId, verse, hit) ==
  [op |-> op, id |-> topicId, verse |-> verse,
   rep |-> (hist.op = op /\ hist.id = topicId /\ hist.verse = verse),
   hit |-> hit, preTopics |-> topics, preFav |-> {}, preFav2 |-> {}]

handleCreateTopic(topicData) ==
  /\ Len(topics) < MaxTopics
  /\ topics' = CreatedTopics(topics, topicData, now)
  /\ hist' = Handled("create", ToId(now), <<>>, FALSE)
  /\ UNCHANGED <<favorites, favoriteVerses, now, dbVars, apiVars,
                 pageVars, snapVars>>

handleDeleteTopic(topicId) ==
  /\ topics' = RemainingTopics(topics, topicId)
  /\ hist' = Handled("delete", topicId, <<>>,
                     \E i \in DOMAIN topics : topics[i].id = topicId)
  /\ UNCHANGED <<favorites, favoriteVerses, now, dbVars, apiVars,
                 pageVars, snapVars>>

handleAddVerseToTopic(topicId, verse) ==
  /\ topics' = AddedTopics(topics, topicId, verse)
  /\ hist' = Handled("add", topicId, verse, TopicHasKey(topics, topicId, verse))
  /\ UNCHANGED <<favorites, favoriteVerses, now, dbVars, apiVars,
                 pageVars, snapVars>>

handleRemoveVerseFromTopic(topicId, verse) ==
  /\ topics' = RemovedTopics(topics, topicId, verse)
  /\ hist' = Handled("remove", topicId, verse,
                     TopicHasKey(topics, topicId, verse))
  /\ UNCHANGED <<favorites, favoriteVerses, now, dbVars, apiVars,
                 pageVars, snapVars>>

\* A millisecond passes.
Tick ==
  /\ now < MaxTopics
  /\ now' = now + 1
  /\ UNCHANGED <<favorites, favoriteVerses, topics, hist, dbVars, apiVars,
                 pageVars, snapVars>>

\* The ids the components can name: those of the topics they were given.
TopicIds == { ToId(ms) : ms \in 1..MaxTopics }

InitTopics ==
  /\ verseTable = {}
  /\ booksTable = CanonicalBooks
  /\ nextBookId = Cardinality(CanonicalBooks) + 1
  /\ nextId = 1
  /\ dbResp = NoResp
  /\ InitApiIdle
  /\ InitCollIdle
  /\ InitPageIdle

NextTopics ==
  \/ \E d \in NewTopicData : handleCreateTopic(d)
  \/ \E t \in TopicIds : handleDeleteTopic(t)
  \/ \E t \in TopicIds, v \in VerseObjs : handleAddVerseToTopic(t, v)
  \/ \E t \in TopicIds, v \in VerseObjs : handleRemoveVerseFromTopic(t, v)
  \/ Tick

SpecTopics == InitTopics /\ [][NextTopics]_vars

C9_SecondAddNoOp ==
  (hist.op = "add" /\ hist.rep) =>
    /\ Len(topics) = Len(hist.preTopics)
    /\ \A i \in DOMAIN topics :
         topics[i].id = hist.id => topics[i].verses = hist.preTopics[i].verses

\* The second of two such calls has run on a topic that holds the verse
\* after another one.
C9_Witness ==
  /\ hist.op = "add"
  /\ hist.rep
  /\ \E i \in DOMAIN topics :
       /\ topics[i].id = hist.id
       /\ Len(topics[i].verses) = 2
       /\ topics[i].verses[2] = hist.verse

(***************************************************************************)
(* C10.  handleRemoveVerseFromTopic(t, v) removes from t exactly the       *)
(* entries with v's key and keeps the order of the rest; when v's key is   *)
(* not among t's verses, t and every other topic are left unchanged.       *)
(***************************************************************************)
C10_RemoveFrame ==
  hist.op = "remove" =>
    /\ Len(topics) = Len(hist.preTopics)
    /\ \A i \in DOMAIN hist.preTopics :
         hist.preTopics[i].id = hist.id =>
           /\ topics[i].verses =
                SelectSeq(hist.preTopics[i].verses,
                          LAMBDA v : Key(v) # Key(hist.verse))
           /\ (\A k \in DOMAIN hist.preTopics[i].verses :
                 Key(hist.preTopics[i].verses[k]) # Key(hist.verse))
              => \A j \in DOMAIN hist.preTopics :
                   j # i => topics[j] = hist.preTopics[j]

(***************************************************************************)
(* C18.  Topic identifiers are unique: in every state reached by topic     *)
(* creations and deletions, with a clock that never goes back and may      *)
(* return the same millisecond twice, no two topics of the list have the   *)
(* same id.                                                                *)
(***************************************************************************)
C18_TopicIdsUnique ==
  \A i \in DOMAIN topics : \A j \in DOMAIN topics :
    topics[i].id = topics[j].id => i = j

(***************************************************************************)
(* HomePage: handlers called from one render.  A handler reads favorites,  *)
(* favoriteVerses and topics through its closure, i.e. as the render that  *)
(* created it saw them, and hands setFavorites / setFavoriteVerses /       *)
(* setTopics a value computed from them; the next render sees the value    *)
(* set last.                                                               *)
(***************************************************************************)
MaxBatch == 2    \* handler calls made from one render

\* What a render shows its handlers.
Rendered(favs, favVs, ts) ==
  [favorites |-> favs, favoriteVerses |-> favVs, topics |-> ts]

\* The values a handler call passes to the setters, computed from the
\* values st it reads.
ApplyCall(st, c) ==
  CASE c.op = "toggle" ->
         [st EXCEPT
            !.favorites = NewFavorites(st.favorites, Key(c.verse)),
            !.favoriteVerses =
               NewFavoriteVerses(st.favorites, st.favoriteVerses, c.verse)]
    [] c.op = "create" ->
         [st EXCEPT !.topics = CreatedTopics(st.topics, c.data, c.ms)]
    [] c.op = "delete" ->
         [st EXCEPT !.topics = RemainingTopics(st.topics, c.id)]
    [] c.op = "add" ->
         [st EXCEPT !.topics = AddedTopics(st.topics, c.id, c.verse)]
    [] c.op = "remove" ->
         [st EXCEPT !.topics = RemovedTopics(st.topics, c.id, c.verse)]

HandlerCall(op, topicId, verse, data) ==
  [op |-> op, id |-> topicId, verse |-> verse, data |-> data, ms |-> now]

\* A handler of the rendered snapshot runs: the setters it calls replace
\* the pending state, the state it does not set is left as it is.
CallFromRender(c) ==
  /\ Len(batch) < MaxBatch
  /\ LET set == ApplyCall(snap, c)
     IN  IF c.op = "toggle"
         THEN /\ favorites' = set.favorites
              /\ favoriteVerses' = set.favoriteVerses
              /\ UNCHANGED topics
         ELSE /\ topics' = set.topics
              /\ UNCHANGED <<favorites, favoriteVerses>>
  /\ batch' = Append(batch, c)
  /\ UNCHANGED <<snap, now, hist, dbVars, apiVars, pageVars>>

handleToggleFavorite_rendered(verse) ==
  CallFromRender(HandlerCall("toggle", <<>>, verse, <<>>))

handleCreateTopic_rendered(topicData) ==
  /\ Len(snap.topics) < MaxTopics
  /\ CallFromRender(HandlerCall("create", <<>>, <<>>, topicData))

handleDeleteTopic_rendered(topicId) ==
  CallFromRender(HandlerCall("delete", topicId, <<>>, <<>>))

handleAddVerseToTopic_rendered(topicId, verse) ==
  CallFromRender(HandlerCall("add", topicId, verse, <<>>))

handleRemoveVerseFromTopic_rendered(topicId, verse) ==
  CallFromRender(HandlerCall("remove", topicId, verse, <<>>))

\* The page renders again with the pending state; the effect on [favorites]
\* runs if a toggle has set a new Set.
Render ==
  /\ batch # <<>>
  /\ favoriteVerses' =
       IF \E i \in DOMAIN batch : batch[i].op = "toggle"
       THEN FavoritesEffect(favorites, verses, favoriteVerses)
       ELSE favoriteVerses
  /\ snap' = Rendered(favorites, favoriteVerses', topics)
  /\ batch' = <<>>
  /\ UNCHANGED <<favorites, topics, now, hist, dbVars, apiVars, pageVars>>

\* The verses and the topic data the components pass in these runs.
SnapVerses ==
  { v \in VerseObjs : v.text # <<"the", "world">> }
SnapTopicData ==
  { d \in NewTopicData : d.verses = <<>> }

InitSnap == InitTopics

NextSnap ==
  \/ \E v \in SnapVerses : handleToggleFavorite_rendered(v)
  \/ \E d \in SnapTopicData : handleCreateTopic_rendered(d)
  \/ \E t \in TopicIds : handleDeleteTopic_rendered(t)
  \/ \E t \in TopicIds, v \in SnapVerses : handleAddVerseToTopic_rendered(t, v)
  \/ \E t \in TopicIds, v \in SnapVerses :
       handleRemoveVerseFromTopic_rendered(t, v)
  \/ Render
  \/ Tick

SpecSnap == InitSnap /\ [][NextSnap]_vars

(***************************************************************************)
(* C19.  No lost updates in client collections: when two handlers have     *)
(* been called from the same rendered snapshot (handleToggleFavorite on    *)
(* two different verses, or any two of the topic handlers), the state      *)
(* reflects both calls: it is what the two calls give one after the        *)
(* other, not what the second gives alone.                                 *)
(***************************************************************************)
RECURSIVE Sequential(_, _)
Sequential(st, calls) ==
  IF calls = <<>> THEN st
  ELSE Sequential(ApplyCall(st, Head(calls)), Tail(calls))

TopicOps == {"create", "delete", "add", "remove"}

TwoFromOneRender ==
  /\ Len(batch) = 2
  /\ \/ /\ batch[1].op = "toggle"
        /\ batch[2].op = "toggle"
        /\ Key(batch[1].verse) # Key(batch[2].verse)
     \/ /\ batch[1].op \in TopicOps
        /\ batch[2].op \in TopicOps

C19_NoLostUpdates ==
  TwoFromOneRender =>
    /\ Range(favorites) = Range(Sequential(snap, batch).favorites)
    /\ topics = Sequential(snap, batch).topics

====
